---------------------------- MODULE Spec2Model ----------------------------
(***************************************************************************)
(* Model of the Qwen provider runtime (class LobeQwenAI): construction,    *)
(* the request builder buildCompletionParamsByModel, the synthesized       *)
(* two-chunk stream of transformResponseToStream, and chat() with its tee, *)
(* debug branch, cancellation signal and catch block.                      *)
(*                                                                         *)
(* Encoding of JavaScript values.                                          *)
(*   - An optional value is a sequence of length <= 1: None is undefined / *)
(*     an absent key, Some(x) is the value x.  A key that omit() removed   *)
(*     and a key whose value is undefined are both None: the request body  *)
(*     the vendor receives has neither.                                    *)
(*   - A string that the code inspects (the model id) is a sequence of     *)
(*     one-character strings.                                              *)
(*   - top_p is a fixed-point number in thousandths: 0.999 is 999.         *)
(***************************************************************************)
EXTENDS Integers, Sequences, FiniteSets, TLC

VARIABLES
  \* request builder, run on its own
  bpc, bpayload, bparams,
  \* transformResponseToStream, run on its own
  tpc, tdata, tqueue, tclosed, tread,
  \* the runtime instance and its chat() invocations
  ctor, inst, env, heap, netCalls,
  pc, pid, signal, aborted, params, thrown, insp, resp,
  prodPos, dbg, dbgPos, delivered, outcome

bvars == <<bpc, bpayload, bparams>>
tvars == <<tpc, tdata, tqueue, tclosed, tread>>
ivars == <<ctor, inst, env, heap, netCalls>>
cvars == <<pc, pid, signal, aborted, params, thrown, insp, resp,
           prodPos, dbg, dbgPos, delivered, outcome>>
vars == <<bvars, tvars, ivars, cvars>>

---------------------------------------------------------------------------
(* JavaScript values *)

None == <<>>
Some(x) == <<x>>
IsSome(m) == m # None
Val(m) == m[1]

\* String.prototype.startsWith
StartsWith(s, prefix) ==
  /\ Len(s) >= Len(prefix)
  /\ SubSeq(s, 1, Len(prefix)) = prefix

\* lodash omit(object, ...paths): a copy without the named keys
Omit(obj, keys) == [k \in DOMAIN obj |-> IF k \in keys THEN None ELSE obj[k]]

---------------------------------------------------------------------------
(* Request builder: buildCompletionParamsByModel *)

\* 'qwen-vl'
VisionPrefix == <<"q", "w", "e", "n", "-", "v", "l">>

\* 1 and 0.999 in thousandths
One == 1000
TopPSafe == 999

\* model.startsWith('qwen-vl')
IsVisionModel(model) == StartsWith(model, VisionPrefix)

\* a bug that forgets the tools override
EffectiveStream_IgnoreTools(tools, stream) ==
  IF IsSome(stream) THEN Val(stream) ELSE TRUE

\* !!tools?.length ? false : stream ?? true
EffectiveStream(tools, stream) ==
  IF IsSome(tools) /\ Len(Val(tools)) # 0
    THEN FALSE
    ELSE IF IsSome(stream) THEN Val(stream) ELSE TRUE

\* a bug that clamps only values above 1
NormalizeTopP_Strict(top_p) ==
  IF IsSome(top_p) /\ Val(top_p) # 0 /\ Val(top_p) > One
    THEN Some(TopPSafe)
    ELSE top_p

\* top_p && top_p >= 1 ? 0.999 : top_p
NormalizeTopP(top_p) ==
  IF IsSome(top_p) /\ Val(top_p) # 0 /\ Val(top_p) >= One
    THEN Some(TopPSafe)
    ELSE top_p

\* a bug that leaves temperature in a vision request
VisionOmitted_KeepTemperature ==
  {"presence_penalty", "frequency_penalty", "result_format", "top_p"}

\* the keys omit() removes for a vision model
VisionOmitted ==
  {"presence_penalty", "frequency_penalty", "temperature", "result_format", "top_p"}

\* { ...payload, messages, result_format, stream, top_p }, then omit()
buildCompletionParamsByModel(payload) ==
  LET model == Val(payload.model)
      isVisionModel == IsVisionModel(model)
      p == [model             |-> payload.model,
            messages          |-> payload.messages,
            max_tokens        |-> payload.max_tokens,
            temperature       |-> payload.temperature,
            presence_penalty  |-> payload.presence_penalty,
            frequency_penalty |-> payload.frequency_penalty,
            tools             |-> payload.tools,
            result_format     |-> Some("message"),
            stream            |-> Some(EffectiveStream(payload.tools, payload.stream)),
            top_p             |-> NormalizeTopP(payload.top_p)]
  IN IF isVisionModel THEN Omit(p, VisionOmitted) ELSE p

\* a bug that writes the effective stream flag back into the caller's object
PayloadAfterBuild_InPlace(payload) ==
  [payload EXCEPT !.stream = Some(EffectiveStream(payload.tools, payload.stream)),
                  !.top_p = NormalizeTopP(payload.top_p)]

\* the caller's payload object after the builder ran: destructuring, the
\* object spread and omit() all copy, so it is what it was
PayloadAfterBuild(payload) == payload

(* inputs of the builder *)

QwenTurbo  == <<"q", "w", "e", "n", "-", "t", "u", "r", "b", "o">>
QwenVlPlus == <<"q", "w", "e", "n", "-", "v", "l", "-", "p", "l", "u", "s">>
QwenVl     == <<"q", "w", "e", "n", "-", "v", "l">>
QwenV      == <<"q", "w", "e", "n", "-", "v">>
MyQwenVl   == <<"m", "y", "-", "q", "w", "e", "n", "-", "v", "l">>

ModelIds == {QwenTurbo, QwenVlPlus, QwenVl, QwenV, MyQwenVl}

\* thousandths above 1 that top_p is drawn from, in steps of 500
TopPOver == 1

TopPValues ==
  {None, Some(-100), Some(0), Some(1), Some(500), Some(TopPSafe), Some(One)}
    \cup {Some(One + 500 * k) : k \in 1..TopPOver}

\* tool lists of up to MaxTools tools
MaxTools == 1
ToolLists == {[i \in 1..n |-> "tool"] : n \in 0..MaxTools}

MaybeOf(S) == {None} \cup {Some(x) : x \in S}

BuildPayloads ==
  [model             : {Some(m) : m \in ModelIds},
   messages          : {Some(<<"m1">>)},
   max_tokens        : {None},
   temperature       : MaybeOf({700}),
   presence_penalty  : {Some(0)},
   frequency_penalty : {None},
   tools             : MaybeOf(ToolLists),
   stream            : MaybeOf(BOOLEAN),
   top_p             : TopPValues]

BuildInit ==
  /\ bpc = "payload"
  /\ bpayload \in BuildPayloads
  /\ bparams = None

\* one call of buildCompletionParamsByModel
Build ==
  /\ bpc = "payload"
  /\ bparams' = Some(buildCompletionParamsByModel(bpayload))
  /\ bpayload' = PayloadAfterBuild(bpayload)
  /\ bpc' = "built"

BuildIdle ==
  /\ bpc = "idle"
  /\ bpayload = None
  /\ bparams = None

---------------------------------------------------------------------------
(* transformResponseToStream: a blocking ChatCompletion as a stream *)

\* choice.message.tool_calls?.map((tool, index) => ({function, id, index, type}))
MapToolCalls(tool_calls) ==
  IF IsSome(tool_calls)
    THEN Some([k \in 1..Len(Val(tool_calls)) |->
                [function |-> Val(tool_calls)[k].function,
                 id       |-> Val(tool_calls)[k].id,
                 index    |-> k - 1,
                 type     |-> Val(tool_calls)[k].type]])
    ELSE None

\* the first enqueued chunk: content, role and tool calls, finish_reason null
FirstChunk(data) ==
  [choices |-> [k \in 1..Len(data.choices) |->
                 [delta |-> [content    |-> data.choices[k].message.content,
                             role       |-> data.choices[k].message.role,
                             tool_calls |-> MapToolCalls(data.choices[k].message.tool_calls)],
                  finish_reason |-> None,
                  index         |-> data.choices[k].index,
                  logprobs      |-> data.choices[k].logprobs]],
   created |-> data.created,
   id      |-> data.id,
   model   |-> data.model,
   object  |-> "chat.completion.chunk",
   system_fingerprint |-> None]

\* the second enqueued chunk: the vendor's finish_reason per choice
SecondChunk(data) ==
  [choices |-> [k \in 1..Len(data.choices) |->
                 [delta |-> [content    |-> data.choices[k].message.content,
                             role       |-> data.choices[k].message.role,
                             tool_calls |-> None],
                  finish_reason |-> Some(data.choices[k].finish_reason),
                  index         |-> data.choices[k].index,
                  logprobs      |-> data.choices[k].logprobs]],
   created |-> data.created,
   id      |-> data.id,
   model   |-> data.model,
   object  |-> "chat.completion.chunk",
   system_fingerprint |-> data.system_fingerprint]

\* what start(controller) leaves in the stream: two chunks, then close()
transformResponseToStream(data) ==
  [queue |-> <<FirstChunk(data), SecondChunk(data)>>, closed |-> TRUE]

(* inputs of the transform *)

\* choices per vendor response, tool calls per choice
MaxChoices == 2
MaxToolCalls == 1

ToolCall(k) == [function |-> "get_weather", id |-> <<"call", k>>, type |-> "function"]

ToolCallLists == {[k \in 1..n |-> ToolCall(k)] : n \in 1..MaxToolCalls}

\* message.content is a string or null
Messages ==
  [content    : {None, Some("hello")},
   role       : {"assistant"},
   tool_calls : {None} \cup {Some(t) : t \in ToolCallLists}]

FinishReasons == {"stop", "tool_calls"}

ChoiceAt(k, m, fr) ==
  [message |-> m, finish_reason |-> fr, index |-> k - 1, logprobs |-> None]

ChoiceLists ==
  UNION {{[k \in 1..n |-> ChoiceAt(k, ms[k], frs[k])] :
            ms \in [1..n -> Messages], frs \in [1..n -> FinishReasons]} :
         n \in 0..MaxChoices}

Completion(choices) ==
  [choices |-> choices, created |-> 1700000000, id |-> "chatcmpl-1",
   model |-> QwenTurbo, system_fingerprint |-> Some("fp")]

Completions == {Completion(c) : c \in ChoiceLists}

TransformInit ==
  /\ tpc = "data"
  /\ tdata \in {Some(d) : d \in Completions}
  /\ tqueue = <<>>
  /\ tclosed = FALSE
  /\ tread = <<>>

\* new ReadableStream({ start(controller) { ... } })
TransformStart ==
  /\ tpc = "data"
  /\ tqueue' = transformResponseToStream(Val(tdata)).queue
  /\ tclosed' = transformResponseToStream(Val(tdata)).closed
  /\ tpc' = "started"
  /\ UNCHANGED <<tdata, tread>>

\* the consumer reads the next chunk of the stream
TransformRead ==
  /\ tpc = "started"
  /\ tqueue # <<>>
  /\ tread' = Append(tread, Head(tqueue))
  /\ tqueue' = Tail(tqueue)
  /\ UNCHANGED <<tpc, tdata, tclosed>>

TransformIdle ==
  /\ tpc = "idle"
  /\ tdata = None
  /\ tqueue = <<>>
  /\ tclosed = FALSE
  /\ tread = <<>>

---------------------------------------------------------------------------
(* The runtime instance: constructor *)

DEFAULT_BASE_URL == "https://dashscope.aliyuncs.com/compatible-mode/v1"

\* !apiKey: undefined and the empty string are both falsy
ApiKeyMissing(apiKey) == ~IsSome(apiKey) \/ Val(apiKey) = ""

\* a bug that only notices an undefined key
constructorLobeQwenAI_UndefinedOnly(options) ==
  LET baseURL == IF IsSome(options.baseURL) THEN Val(options.baseURL) ELSE DEFAULT_BASE_URL
      client  == [apiKey |-> Val(options.apiKey), baseURL |-> baseURL]
  IN IF ~IsSome(options.apiKey)
       THEN [threw |-> Some("InvalidProviderAPIKey"), instance |-> None]
       ELSE [threw |-> None,
             instance |-> Some([client |-> client, baseURL |-> client.baseURL])]

\* constructor({ apiKey, baseURL = DEFAULT_BASE_URL, ...res })
constructorLobeQwenAI(options) ==
  LET baseURL == IF IsSome(options.baseURL) THEN Val(options.baseURL) ELSE DEFAULT_BASE_URL
      client  == [apiKey |-> Val(options.apiKey), baseURL |-> baseURL]
  IN IF ApiKeyMissing(options.apiKey)
       THEN [threw |-> Some("InvalidProviderAPIKey"), instance |-> None]
       ELSE [threw |-> None,
             instance |-> Some([client |-> client, baseURL |-> client.baseURL])]

ClientOptionsSet ==
  [apiKey  : {None, Some(""), Some("sk-key")},
   baseURL : {None, Some("https://proxy.example/v1")}]

\* new LobeQwenAI(options)
Construct(options) ==
  /\ ctor = None
  /\ ctor' = Some([options |-> options, threw |-> constructorLobeQwenAI(options).threw])
  /\ inst' = constructorLobeQwenAI(options).instance
  /\ UNCHANGED <<bvars, tvars, env, heap, netCalls, cvars>>

---------------------------------------------------------------------------
(* chat(): catch block *)

\* thrown values: objects (with or without a status key) and primitives
ErrorObject(hasStatus, status) ==
  [type |-> "object", hasStatus |-> hasStatus, status |-> status]
Primitive(type) == [type |-> type, hasStatus |-> FALSE, status |-> None]

ThrownValues ==
  {ErrorObject(TRUE, Some(401)), ErrorObject(TRUE, Some(429)),
   ErrorObject(TRUE, None), ErrorObject(FALSE, None),
   Primitive("string"), Primitive("null"), Primitive("undefined")}

\* what model.startsWith throws when the payload has no model
BuildTypeError == ErrorObject(FALSE, None)
\* what the vendor client rejects with when its signal is aborted
AbortError == ErrorObject(FALSE, None)

\* the finer classifications of the shared inspector
FinerKinds == {"RateLimit", "ContentPolicy"}

\* handleOpenAIError(error).RuntimeError: a finer classification, or none
handleOpenAIError(error) == {None} \cup {Some(k) : k \in FinerKinds}

RuntimeError(errorType, endpoint) ==
  [kind |-> "RuntimeError", errorType |-> Some(errorType),
   endpoint |-> Some(endpoint), provider |-> Some("qwen")]
\* the 'in' operator applied to a primitive throws out of the catch block
InOperatorTypeError ==
  [kind |-> "TypeError", errorType |-> None, endpoint |-> None, provider |-> None]
\* StreamingResponse(...)
Response ==
  [kind |-> "Response", errorType |-> None, endpoint |-> None, provider |-> None]

\* whether the catch block reaches the handleOpenAIError call
InspectorCalled(error) ==
  /\ error.type = "object"
  /\ ~(error.hasStatus /\ error.status = Some(401))

\* catch (error) { ... }: what chat() throws for the caught value
ChatCatch(error, inspected, baseURL) ==
  IF error.type # "object"
    THEN InOperatorTypeError
    ELSE IF error.hasStatus /\ error.status = Some(401)
      THEN RuntimeError("InvalidProviderAPIKey", baseURL)
      ELSE RuntimeError(IF IsSome(inspected) THEN Val(inspected) ELSE "ProviderBizError",
                        baseURL)

---------------------------------------------------------------------------
(* chat(): invocations on one instance *)

\* concurrent chat() invocations, chunks per vendor stream
NInv == 2
MaxChunks == 2

Invs == 1..NInv

\* the payload objects the callers hold: a streaming request, a request with
\* tools (answered by one blocking response) and a request without a model
StreamPayload ==
  [model |-> Some(QwenTurbo), messages |-> Some(<<"m1">>), max_tokens |-> None,
   temperature |-> None, presence_penalty |-> None, frequency_penalty |-> None,
   tools |-> None, stream |-> None, top_p |-> Some(One)]
ToolsPayload  == [StreamPayload EXCEPT !.tools = Some(<<"tool">>), !.stream = Some(TRUE)]
NoModelPayload == [StreamPayload EXCEPT !.model = None]

HeapInit == <<StreamPayload, ToolsPayload, NoModelPayload>>

\* the vendor's streams and blocking responses
VendorStreams == {[k \in 1..n |-> <<"chunk", k>>] : n \in 0..MaxChunks}

VendorCompletions ==
  {Completion(<<ChoiceAt(1, [content |-> Some("hello"), role |-> "assistant",
                             tool_calls |-> None], "stop")>>),
   Completion(<<ChoiceAt(1, [content |-> None, role |-> "assistant",
                             tool_calls |-> Some(<<ToolCall(1)>>)], "tool_calls")>>)}

\* a bug that does not hand the caller's signal to the vendor call
PassedSignal_Dropped(given) == FALSE

\* { headers, signal: options?.signal }: the request carries the caller's signal
PassedSignal(given) == given

\* process.env.DEBUG_QWEN_CHAT_COMPLETION === '1'
DebugEnabled(e) == e = Some("1")

\* QwenAIStream: the frame the callback receives for a source chunk
Transcode(chunk) == [frame |-> chunk]

\* a bug that awaits the debug branch inside the try block
DebugCatch_Rethrow(primary, baseURL) ==
  [pc |-> "thrown", outcome |-> Some(RuntimeError("ProviderBizError", baseURL))]

\* debugStream(...).catch(console.error): the rejection is logged, the
\* invocation is what it was
DebugCatch(primary, baseURL) == primary

ChatInit ==
  /\ ctor = None
  /\ inst = None
  /\ env = None
  /\ heap = HeapInit
  /\ netCalls = 0
  /\ pc = [i \in Invs |-> "idle"]
  /\ pid = [i \in Invs |-> 0]
  /\ signal = [i \in Invs |-> FALSE]
  /\ aborted = [i \in Invs |-> FALSE]
  /\ params = [i \in Invs |-> None]
  /\ thrown = [i \in Invs |-> None]
  /\ insp = [i \in Invs |-> None]
  /\ resp = [i \in Invs |-> <<>>]
  /\ prodPos = [i \in Invs |-> 0]
  /\ dbg = [i \in Invs |-> "off"]
  /\ dbgPos = [i \in Invs |-> 0]
  /\ delivered = [i \in Invs |-> <<>>]
  /\ outcome = [i \in Invs |-> None]

\* the environment sets or clears DEBUG_QWEN_CHAT_COMPLETION
SetEnv(e) ==
  /\ e # env
  /\ env' = e
  /\ UNCHANGED <<bvars, tvars, ctor, inst, heap, netCalls, cvars>>

\* the catch block runs for the thrown value error
Catch(i, error, inspected) ==
  /\ thrown' = [thrown EXCEPT ![i] = Some(error)]
  /\ insp' = [insp EXCEPT ![i] = IF InspectorCalled(error) THEN Some(inspected) ELSE None]
  /\ outcome' = [outcome EXCEPT ![i] =
                   Some(ChatCatch(error, inspected, Val(inst).baseURL))]
  /\ pc' = [pc EXCEPT ![i] = "thrown"]

InspectorChoices(error) ==
  IF InspectorCalled(error) THEN handleOpenAIError(error) ELSE {None}

\* chat(payload, options) up to the await: the request is built and sent
ChatStart(i, p, sig) ==
  /\ IsSome(inst)
  /\ pc[i] = "idle"
  /\ \A j \in Invs : j < i => pc[j] # "idle"
  /\ pid' = [pid EXCEPT ![i] = p]
  /\ signal' = [signal EXCEPT ![i] = sig]
  /\ IF IsSome(heap[p].model)
       THEN /\ params' = [params EXCEPT ![i] = Some(buildCompletionParamsByModel(heap[p]))]
            /\ heap' = [heap EXCEPT ![p] = PayloadAfterBuild(heap[p])]
            /\ netCalls' = netCalls + 1
            /\ pc' = [pc EXCEPT ![i] = "calling"]
            /\ UNCHANGED <<thrown, insp, outcome>>
       ELSE /\ \E r \in InspectorChoices(BuildTypeError) : Catch(i, BuildTypeError, r)
            /\ UNCHANGED <<params, heap, netCalls>>
  /\ UNCHANGED <<bvars, tvars, ctor, inst, env, aborted, resp, prodPos, dbg, dbgPos, delivered>>

\* the caller aborts its signal
Abort(i) ==
  /\ signal[i]
  /\ ~aborted[i]
  /\ pc[i] \in {"calling", "streaming"}
  /\ aborted' = [aborted EXCEPT ![i] = TRUE]
  /\ UNCHANGED <<bvars, tvars, ivars, pc, pid, signal, params, thrown, insp, resp,
                 prodPos, dbg, dbgPos, delivered, outcome>>

\* the request's signal is aborted
RequestAborted(i) == PassedSignal(signal[i]) /\ aborted[i]

\* the vendor answers with a live stream: tee, debug branch, response
VendorStream(i, src) ==
  /\ pc[i] = "calling"
  /\ Val(params[i]).stream = Some(TRUE)
  /\ ~RequestAborted(i)
  /\ resp' = [resp EXCEPT ![i] = src]
  /\ dbg' = [dbg EXCEPT ![i] = IF DebugEnabled(env) THEN "running" ELSE "off"]
  /\ outcome' = [outcome EXCEPT ![i] = Some(Response)]
  /\ pc' = [pc EXCEPT ![i] = "streaming"]
  /\ UNCHANGED <<bvars, tvars, ivars, pid, signal, aborted, params, thrown, insp,
                 prodPos, dbgPos, delivered>>

\* the vendor answers with one blocking response: the synthesized stream
VendorCompletion(i, data) ==
  /\ pc[i] = "calling"
  /\ Val(params[i]).stream = Some(FALSE)
  /\ ~RequestAborted(i)
  /\ resp' = [resp EXCEPT ![i] = transformResponseToStream(data).queue]
  /\ outcome' = [outcome EXCEPT ![i] = Some(Response)]
  /\ pc' = [pc EXCEPT ![i] = "streaming"]
  /\ UNCHANGED <<bvars, tvars, ivars, pid, signal, aborted, params, thrown, insp,
                 prodPos, dbg, dbgPos, delivered>>

\* the vendor call rejects with error
VendorReject(i, error) ==
  /\ pc[i] = "calling"
  /\ ~RequestAborted(i)
  /\ \E r \in InspectorChoices(error) : Catch(i, error, r)
  /\ UNCHANGED <<bvars, tvars, ivars, pid, signal, aborted, params, resp,
                 prodPos, dbg, dbgPos, delivered>>

\* the vendor call rejects because its signal was aborted
VendorAbort(i) ==
  /\ pc[i] = "calling"
  /\ RequestAborted(i)
  /\ \E r \in InspectorChoices(AbortError) : Catch(i, AbortError, r)
  /\ UNCHANGED <<bvars, tvars, ivars, pid, signal, aborted, params, resp,
                 prodPos, dbg, dbgPos, delivered>>

\* the transcoder pulls the next chunk and hands its frame to the callback
TranscoderPull(i) ==
  /\ pc[i] = "streaming"
  /\ prodPos[i] < Len(resp[i])
  /\ delivered' = [delivered EXCEPT ![i] = Append(@, Transcode(resp[i][prodPos[i] + 1]))]
  /\ prodPos' = [prodPos EXCEPT ![i] = @ + 1]
  /\ UNCHANGED <<bvars, tvars, ivars, pc, pid, signal, aborted, params, thrown, insp, resp,
                 dbg, dbgPos, outcome>>

\* the source signals completion and the response body ends
TranscoderEnd(i) ==
  /\ pc[i] = "streaming"
  /\ prodPos[i] = Len(resp[i])
  /\ pc' = [pc EXCEPT ![i] = "done"]
  /\ UNCHANGED <<bvars, tvars, ivars, pid, signal, aborted, params, thrown, insp, resp,
                 prodPos, dbg, dbgPos, delivered, outcome>>

\* the aborted signal ends the stream before its last chunk
TranscoderCancel(i) ==
  /\ pc[i] = "streaming"
  /\ RequestAborted(i)
  /\ pc' = [pc EXCEPT ![i] = "cancelled"]
  /\ UNCHANGED <<bvars, tvars, ivars, pid, signal, aborted, params, thrown, insp, resp,
                 prodPos, dbg, dbgPos, delivered, outcome>>

\* the debug branch reads its next chunk, or finishes
DebugPull(i) ==
  /\ dbg[i] = "running"
  /\ IF dbgPos[i] < Len(resp[i])
       THEN /\ dbgPos' = [dbgPos EXCEPT ![i] = @ + 1]
            /\ dbg' = dbg
       ELSE /\ dbg' = [dbg EXCEPT ![i] = "done"]
            /\ dbgPos' = dbgPos
  /\ UNCHANGED <<bvars, tvars, ivars, pc, pid, signal, aborted, params, thrown, insp, resp,
                 prodPos, delivered, outcome>>

\* the debug branch rejects
DebugFail(i) ==
  /\ dbg[i] = "running"
  /\ dbg' = [dbg EXCEPT ![i] = "failed"]
  /\ pc' = [pc EXCEPT ![i] =
              DebugCatch([pc |-> pc[i], outcome |-> outcome[i]], Val(inst).baseURL).pc]
  /\ outcome' = [outcome EXCEPT ![i] =
              DebugCatch([pc |-> pc[i], outcome |-> outcome[i]], Val(inst).baseURL).outcome]
  /\ UNCHANGED <<bvars, tvars, ivars, pid, signal, aborted, params, thrown, insp, resp,
                 prodPos, dbgPos, delivered>>

---------------------------------------------------------------------------
(* Specifications *)

\* the request builder on every payload of BuildPayloads
SpecBuildInit == BuildInit /\ TransformIdle /\ ChatInit
SpecBuildNext == Build /\ UNCHANGED <<tvars, ivars, cvars>>
SpecBuild == SpecBuildInit /\ [][SpecBuildNext]_vars

\* transformResponseToStream on every response of Completions
SpecTransformInit == BuildIdle /\ TransformInit /\ ChatInit
SpecTransformNext ==
  \/ TransformStart /\ UNCHANGED <<bvars, ivars, cvars>>
  \/ TransformRead /\ UNCHANGED <<bvars, ivars, cvars>>
SpecTransform == SpecTransformInit /\ [][SpecTransformNext]_vars

\* one instance and one chat() invocation, with every thrown value, the
\* caller's signal and the debug branch
Init == BuildIdle /\ TransformIdle /\ ChatInit
Next ==
  \/ \E o \in ClientOptionsSet : Construct(o)
  \/ \E e \in {None, Some("1")} : SetEnv(e)
  \/ \E p \in DOMAIN HeapInit, sig \in BOOLEAN : ChatStart(1, p, sig)
  \/ Abort(1)
  \/ \E src \in VendorStreams : VendorStream(1, src)
  \/ \E data \in VendorCompletions : VendorCompletion(1, data)
  \/ \E error \in ThrownValues : VendorReject(1, error)
  \/ VendorAbort(1)
  \/ TranscoderPull(1)
  \/ TranscoderEnd(1)
  \/ TranscoderCancel(1)
  \/ DebugPull(1)
  \/ DebugFail(1)
Spec == Init /\ [][Next]_vars

\* one instance and NInv interleaved chat() invocations
ConcOptions == [apiKey |-> Some("sk-key"), baseURL |-> None]
ConcStreams == {[k \in 1..MaxChunks |-> <<"chunk", k>>]}
ConcThrown == {ErrorObject(TRUE, Some(401)), ErrorObject(TRUE, Some(429))}
ConcCompletions ==
  {Completion(<<ChoiceAt(1, [content |-> None, role |-> "assistant",
                             tool_calls |-> Some(<<ToolCall(1)>>)], "tool_calls")>>)}

SpecConcNext ==
  \/ Construct(ConcOptions)
  \/ \E e \in {None, Some("1")} : SetEnv(e)
  \/ \E i \in Invs, p \in DOMAIN HeapInit : ChatStart(i, p, FALSE)
  \/ \E i \in Invs, src \in ConcStreams : VendorStream(i, src)
  \/ \E i \in Invs, data \in ConcCompletions : VendorCompletion(i, data)
  \/ \E i \in Invs, error \in ConcThrown : VendorReject(i, error)
  \/ \E i \in Invs : TranscoderPull(i)
  \/ \E i \in Invs : TranscoderEnd(i)
  \/ \E i \in Invs : DebugPull(i)
  \/ \E i \in Invs : DebugFail(i)
SpecConc == Init /\ [][SpecConcNext]_vars

---------------------------------------------------------------------------
(* Claims about the request builder, under SpecBuild *)

Built == bpc = "built"
BuiltParams == Val(bparams)
PayloadModel == Val(bpayload.model)

\* the model id begins with the seven characters q w e n - v l
HasVisionPrefix(m) ==
  /\ Len(m) >= 7
  /\ \A k \in 1..7 : m[k] = VisionPrefix[k]

ToolsNonEmpty == bpayload.tools # None /\ bpayload.tools # Some(<<>>)

\* C4: the built request's stream flag is false whenever tools is non-empty,
\* whatever stream flag was requested; with tools absent or empty it is the
\* requested flag, and true when no flag was given.
C4_EffectiveStream ==
  Built =>
    /\ ToolsNonEmpty => BuiltParams.stream = Some(FALSE)
    /\ ~ToolsNonEmpty /\ bpayload.stream # None => BuiltParams.stream = bpayload.stream
    /\ ~ToolsNonEmpty /\ bpayload.stream = None => BuiltParams.stream = Some(TRUE)

C4_Witness ==
  /\ Built
  /\ ToolsNonEmpty
  /\ bpayload.stream = Some(TRUE)
  /\ BuiltParams.stream = Some(FALSE)

\* C5 as stated: for every payload with top_p >= 1 the built request has
\* top_p = 0.999, and for every payload with top_p < 1 it has the payload's
\* top_p.
C5_TopPAllPayloads ==
  Built /\ bpayload.top_p # None =>
    IF Val(bpayload.top_p) >= One
      THEN BuiltParams.top_p = Some(TopPSafe)
      ELSE BuiltParams.top_p = bpayload.top_p

\* C5 amended: for every payload whose model id does not start with
\* 'qwen-vl', top_p >= 1 becomes 0.999 and top_p < 1 is passed through
\* unchanged; for a model id that starts with 'qwen-vl' the built request
\* has no top_p at all.
C5_TopPNonVision ==
  Built /\ bpayload.top_p # None =>
    IF HasVisionPrefix(PayloadModel)
      THEN BuiltParams.top_p = None
      ELSE IF Val(bpayload.top_p) >= One
        THEN BuiltParams.top_p = Some(TopPSafe)
        ELSE BuiltParams.top_p = bpayload.top_p

C5_Witness ==
  /\ Built
  /\ ~HasVisionPrefix(PayloadModel)
  /\ bpayload.top_p = Some(One)
  /\ BuiltParams.top_p = Some(TopPSafe)

\* C6: a request for a model id that starts with 'qwen-vl' has none of
\* presence_penalty, frequency_penalty, temperature, top_p and result_format
\* and keeps model, messages, stream and tools; a request for any other
\* model id has result_format = 'message'.
C6_VisionOmits ==
  Built =>
    IF HasVisionPrefix(PayloadModel)
      THEN /\ BuiltParams.presence_penalty = None
           /\ BuiltParams.frequency_penalty = None
           /\ BuiltParams.temperature = None
           /\ BuiltParams.top_p = None
           /\ BuiltParams.result_format = None
           /\ BuiltParams.model = bpayload.model
           /\ BuiltParams.messages = bpayload.messages
           /\ BuiltParams.tools = bpayload.tools
           /\ BuiltParams.max_tokens = bpayload.max_tokens
           /\ BuiltParams.stream # None
      ELSE BuiltParams.result_format = Some("message")

C6_Witness ==
  /\ Built
  /\ PayloadModel = QwenVlPlus
  /\ bpayload.temperature # None
  /\ bpayload.presence_penalty # None
  /\ bpayload.top_p = Some(One)
  /\ BuiltParams.temperature = None
  /\ BuiltParams.model = Some(QwenVlPlus)

---------------------------------------------------------------------------
(* Claims about transformResponseToStream, under SpecTransform *)

\* the chunks the stream has yielded and will yield, in order
Synthesized == tread \o tqueue

\* C1: the synthesized stream holds exactly 2 chunks and is closed; chunk 1
\* has finish_reason null and the content and role of each of the N choices;
\* chunk 2 has the vendor's finish_reason of each choice and no content in
\* any choice's delta.
C1_TwoChunksSecondEmpty ==
  tpc = "started" =>
    LET choices == Val(tdata).choices
        N == Len(choices)
    IN /\ Len(Synthesized) = 2
       /\ tclosed
       /\ Len(Synthesized[1].choices) = N
       /\ Len(Synthesized[2].choices) = N
       /\ \A k \in 1..N :
            /\ Synthesized[1].choices[k].finish_reason = None
            /\ Synthesized[1].choices[k].delta.content = choices[k].message.content
            /\ Synthesized[1].choices[k].delta.role = choices[k].message.role
            /\ Synthesized[2].choices[k].finish_reason = Some(choices[k].finish_reason)
            /\ Synthesized[2].choices[k].delta.content = None

\* the part of C1 the code does keep: two chunks, closed, chunk 1 as claimed,
\* chunk 2 with the vendor's finish_reason
C1_TwoChunksShape ==
  tpc = "started" =>
    LET choices == Val(tdata).choices
        N == Len(choices)
    IN /\ Len(Synthesized) = 2
       /\ tclosed
       /\ \A k \in 1..N :
            /\ Synthesized[1].choices[k].finish_reason = None
            /\ Synthesized[1].choices[k].delta.content = choices[k].message.content
            /\ Synthesized[1].choices[k].delta.role = choices[k].message.role
            /\ Synthesized[2].choices[k].finish_reason = Some(choices[k].finish_reason)

---------------------------------------------------------------------------
(* Claims about the constructor and one chat() invocation, under Spec *)

Thrown(i) == pc[i] = "thrown"

\* C2: whatever value was thrown inside the try block, chat() throws a
\* RuntimeError that carries the instance's baseURL and the provider id qwen.
C2_AlwaysRuntimeError ==
  \A i \in Invs :
    Thrown(i) =>
      /\ Val(outcome[i]).kind = "RuntimeError"
      /\ Val(outcome[i]).endpoint = Some(Val(inst).baseURL)
      /\ Val(outcome[i]).provider = Some("qwen")

\* the kind C3 names for a thrown value and the inspector's answer
ClaimedKind(error, inspected) ==
  IF error.hasStatus /\ error.status = Some(401)
    THEN "InvalidProviderAPIKey"
    ELSE IF inspected # None /\ Val(inspected) # None
      THEN Val(Val(inspected))
      ELSE "ProviderBizError"

\* C3: a thrown value with status 401 gives kind InvalidProviderAPIKey; every
\* other thrown value gives the inspector's finer kind when it has one and
\* ProviderBizError when it has none.
C3_KindOfEveryThrownValue ==
  \A i \in Invs :
    Thrown(i) =>
      Val(outcome[i]).errorType = Some(ClaimedKind(Val(thrown[i]), insp[i]))

\* C3 on the thrown values that are objects, where the code does classify
C3_KindOfThrownObjects ==
  \A i \in Invs :
    Thrown(i) /\ Val(thrown[i]).type = "object" =>
      Val(outcome[i]).errorType = Some(ClaimedKind(Val(thrown[i]), insp[i]))

Constructed == ctor # None
GivenKey == Val(ctor).options.apiKey
GivenURL == Val(ctor).options.baseURL

\* C7: construction without an API key (absent or empty) throws
\* InvalidProviderAPIKey, leaves no instance and no client, and no vendor
\* call is ever made; construction with a key succeeds with the caller's
\* base URL, or the default one when the caller gave none.
C7_ConstructionNeedsKey ==
  Constructed =>
    IF GivenKey = None \/ GivenKey = Some("")
      THEN /\ Val(ctor).threw = Some("InvalidProviderAPIKey")
           /\ inst = None
           /\ netCalls = 0
           /\ \A i \in Invs : pc[i] = "idle"
      ELSE /\ Val(ctor).threw = None
           /\ inst # None
           /\ Val(inst).client.apiKey = Val(GivenKey)
           /\ Val(inst).baseURL =
                IF GivenURL = None THEN DEFAULT_BASE_URL ELSE Val(GivenURL)

C7_Witness ==
  /\ Constructed
  /\ GivenKey = Some("")
  /\ Val(ctor).threw = Some("InvalidProviderAPIKey")
  /\ inst = None

\* the caller aborted its signal while the vendor call was pending
AbortedInCall(i) ==
  /\ signal[i]
  /\ aborted[i]
  /\ pc[i] \in {"calling", "thrown"}

\* C8: once the signal is aborted while the vendor call is pending, the call
\* can only reject: no response follows and the callback never gets a chunk.
C8_EarlyAbortDeliversNothing ==
  /\ [](\A i \in Invs : AbortedInCall(i) => delivered[i] = <<>>)
  /\ [][\A i \in Invs : AbortedInCall(i) => AbortedInCall(i)']_vars

C8_Witness ==
  /\ AbortedInCall(1)
  /\ Thrown(1)
  /\ delivered[1] = <<>>
  /\ Val(outcome[1]).kind = "RuntimeError"

---------------------------------------------------------------------------
(* Claims about interleaved chat() invocations, under SpecConc *)

\* invocation i got a live stream from the vendor
Streamed(i) ==
  /\ pc[i] \in {"streaming", "done", "cancelled"}
  /\ Val(params[i]).stream = Some(TRUE)

\* C9: two invocations that got the same vendor stream have the same outcome
\* and, chunk for chunk, the same deliveries, whatever their debug branches
\* did (off, finished, failed); a failed debug branch leaves the invocation a
\* response; and the primary path can always take its next step.
C9_DebugNeverAltersPrimary ==
  /\ \A i \in Invs, j \in Invs :
       Streamed(i) /\ Streamed(j) /\ resp[i] = resp[j] =>
         /\ outcome[i] = outcome[j]
         /\ prodPos[i] <= prodPos[j] =>
              delivered[i] = SubSeq(delivered[j], 1, prodPos[i])
         /\ pc[i] = "done" /\ pc[j] = "done" => delivered[i] = delivered[j]
  /\ \A i \in Invs :
       dbg[i] # "off" =>
         /\ Streamed(i)
         /\ outcome[i] = Some(Response)
  /\ \A i \in Invs :
       pc[i] = "streaming" => ENABLED (TranscoderPull(i) \/ TranscoderEnd(i))

C9_Witness ==
  \E i \in Invs, j \in Invs :
    /\ pc[i] = "done" /\ pc[j] = "done"
    /\ Streamed(i) /\ Streamed(j)
    /\ dbg[i] = "failed" /\ dbgPos[i] = 0
    /\ dbg[j] = "off"
    /\ Len(delivered[i]) = MaxChunks
    /\ delivered[i] = delivered[j]

\* what invocation i shows when it is the only one: a function of its own
\* payload object as the caller made it and of the vendor's answer to it
AloneParams(i) == Some(buildCompletionParamsByModel(HeapInit[pid[i]]))
AloneDelivered(i) == [k \in 1..prodPos[i] |-> Transcode(resp[i][k])]
AloneOutcome(i) ==
  IF thrown[i] # None
    THEN Some(ChatCatch(Val(thrown[i]),
                        IF insp[i] # None THEN Val(insp[i]) ELSE None,
                        DEFAULT_BASE_URL))
    ELSE IF pc[i] = "calling" THEN None ELSE Some(Response)

\* C10: under every interleaving, chat() leaves the instance's client and
\* baseURL and the callers' payload objects as they were, and each
\* invocation's built request, delivered chunks and outcome are those of the
\* invocation running alone.
C10_InvocationsIndependent ==
  /\ heap = HeapInit
  /\ Constructed => inst = constructorLobeQwenAI(ConcOptions).instance
  /\ \A i \in Invs :
       pc[i] # "idle" =>
         /\ HeapInit[pid[i]].model # None => params[i] = AloneParams(i)
         /\ delivered[i] = AloneDelivered(i)
         /\ outcome[i] = AloneOutcome(i)

C10_Witness ==
  /\ pc[1] = "streaming"
  /\ prodPos[1] = 1
  /\ pc[2] = "calling"
  /\ pid[1] = pid[2]
  /\ netCalls = 2

===========================================================================
